---- MODULE Spec2Model ----
(***************************************************************************)
(* A model of the image browser: the pagination loader (ImageGrid and its  *)
(* InfiniteScrollTrigger) and the image source client (picsum-api).        *)
(*                                                                         *)
(* React is modelled by what the components rely on: a state hook holds    *)
(* the latest value written by its setter; the values a render read, and   *)
(* the callbacks it created, are a snapshot ("rendered") that stays in use *)
(* until the next render commits.  A render commits together with its      *)
(* effects.  A click is a discrete event: the updates of its handler are   *)
(* rendered before anything else runs.  Updates made from an observer      *)
(* callback or from the continuation of an await are rendered by a later   *)
(* task (the Render action).                                               *)
(***************************************************************************)
EXTENDS Integers, Sequences, FiniteSets, TLC

VARIABLES
    images,     \* ImageGrid state: the held record list
    page,       \* ImageGrid state: the page cursor
    isLoading,  \* ImageGrid state
    hasMore,    \* ImageGrid state
    error,      \* ImageGrid state: <<>> is null, <<m>> the message m
    rendered,   \* what the committed render of ImageGrid read from its state
    observer,   \* the IntersectionObserver of InfiniteScrollTrigger's effect
    visible,    \* whether the trigger element intersects the (extended) viewport
    inflight,   \* page fetches issued by loadMore and not yet completed
    calls,      \* every request made to the list endpoint, in order
    failedTarget, \* the page of the last fetch that failed, 0 before any (history)
    ev,         \* the last step taken (history)
    appended,   \* the pages put in the held list, in order, each with its
                \* number and records; the first is Home's (history)
    invoked,    \* whether the trigger has called loadMore since the trigger
                \* element last entered the viewport (history)
    imageId,    \* the id a detail page asks the single-record endpoint for
    transport,  \* what the transport does with that request
    fetched,    \* the outcome of fetchSingleImage, once it has settled
    detailPage, \* what ImageDetailsPage rendered, once it has
    source,     \* applyGrayscale: the pixels of the bitmap it is given
    output,     \* applyGrayscale: the pixel data it put on its canvas
    applied,    \* how many times applyGrayscale ran, each on the last output
    once,       \* the pixel data the first run produced (history)
    props,      \* ImageViewer props: imageUrl, imageId, author
    viewer,     \* ImageViewer state: currentImageUrl, isLoading, hasError
    toolbar,    \* ImageToolbar state: isProcessing, error
    shown,      \* what the committed render of the viewer and toolbar shows
    img,        \* the <img> element of the viewer
    jobs,       \* transforms waiting for loadImage
    fetches,    \* downloads waiting for their bytes
    objectUrls, \* the object URLs created, with how often each was revoked
    timers,     \* the timeouts scheduled and not yet run
    saves,      \* every save triggered (a click on a link with download)
    transforms, \* how many transforms were started
    downloads,  \* how many downloads were started
    vev,        \* the last step of the viewer (history)
    promise,    \* how the last call of downloadImage that ended did end
    afterReset  \* whether Reset to Original was pressed and no transform
                \* was started since (history)

vars == <<images, page, isLoading, hasMore, error, rendered, observer,
          visible, inflight, calls, failedTarget, ev, appended, invoked,
          imageId, transport, fetched, detailPage,
          source, output, applied, once,
          props, viewer, toolbar, shown, img, jobs, fetches, objectUrls,
          timers, saves, transforms, downloads, vev, promise,
                afterReset>>

loaderState == <<images, page, isLoading, hasMore, error, inflight, calls>>

gridVars == <<images, page, isLoading, hasMore, error, rendered, observer,
              visible, inflight, calls, failedTarget, ev, appended,
              invoked>>

detailVars == <<imageId, transport, fetched, detailPage>>

pixelVars == <<source, output, applied, once>>

viewerVars == <<props, viewer, toolbar, shown, img, jobs, fetches, objectUrls,
                timers, saves, transforms, downloads, vev, promise,
                afterReset>>

-----------------------------------------------------------------------------
(* Bounds of the model *)

MaxCalls == 4   \* requests to the list endpoint in one session
MaxPixels == 2  \* pixels of a bitmap
MaxApplied == 2 \* runs of applyGrayscale on one bitmap
MaxTransforms == 2 \* transforms started in one visit of a detail page
MaxDownloads == 2  \* downloads started in one visit of a detail page

(* Program constants *)

INITIAL_PAGE == 1
IMAGES_PER_PAGE == 30
BLOB_CLEANUP_DELAY_MS == 100

-----------------------------------------------------------------------------
(* Values *)

\* An ImageRecord is represented by its id.  The non-empty pages the list
\* endpoint answers with in the model: one out of id order, and an id that
\* comes back on a later page.
Pages == {<<1>>, <<2, 1>>, <<1, 3>>}

NoError == <<>>

\* A thrown value: an Error with a message, or something that is no Error.
ErrorOf(m) == [isError |-> TRUE, message |-> m]
NonError == [isError |-> FALSE, message |-> ""]

\* What the transport (fetch, then response.json()) can do.
Rejected(e) ==
    [kind |-> "reject", thrown |-> e, status |-> 0, statusText |-> "",
     parses |-> FALSE, data |-> <<>>]
Response(s, st, d) ==
    [kind |-> "response", thrown |-> NonError, status |-> s, statusText |-> st,
     parses |-> TRUE, data |-> d]
BadBody(s, st, e) ==
    [kind |-> "response", thrown |-> e, status |-> s, statusText |-> st,
     parses |-> FALSE, data |-> <<>>]

\* response.ok
ResponseOk(t) == t.status >= 200 /\ t.status <= 299

Returned(v) == [threw |-> FALSE, err |-> NonError, value |-> v]
Threw(e) == [threw |-> TRUE, err |-> e, value |-> <<>>]

-----------------------------------------------------------------------------
(* picsum-api: fetchPicsumImages *)

ApiError(t) ==
    ErrorOf("Picsum API error: " \o ToString(t.status) \o " " \o t.statusText)

\* A try block that does not look at the status of the response.
ListTryIgnoresStatus(t) ==
    IF t.kind = "reject" THEN Threw(t.thrown)
    ELSE IF ~t.parses THEN Threw(t.thrown)
    ELSE Returned(t.data)

\* The try block: the fetch, the status check, the body.
ListTry(t) ==
    IF t.kind = "reject" THEN Threw(t.thrown)
    ELSE IF ~ResponseOk(t) THEN Threw(ApiError(t))
    ELSE IF ~t.parses THEN Threw(t.thrown)
    ELSE Returned(t.data)

\* A catch block that swallows the failure and answers with no records.
ListCatchSwallows(e) == Returned(<<>>)

\* The catch block wraps whatever the try block threw.
ListCatch(e) ==
    IF e.isError
    THEN Threw(ErrorOf("Failed to fetch images: " \o e.message))
    ELSE Threw(ErrorOf("Failed to fetch images: Unknown error"))

fetchPicsumImages(t) ==
    LET r == ListTry(t) IN IF r.threw THEN ListCatch(r.err) ELSE r

\* The transport outcomes the model draws from for the list endpoint.
TransportFailures ==
    { Rejected(ErrorOf("Failed to fetch")),
      Rejected(ErrorOf("")),
      Rejected(NonError),
      Response(500, "Internal Server Error", <<>>),
      BadBody(200, "OK", ErrorOf("Unexpected token < in JSON")) }

ListOutcomes ==
    {Response(200, "OK", d) : d \in Pages \cup {<<>>}} \cup TransportFailures

-----------------------------------------------------------------------------
(* picsum-api: fetchSingleImage *)

InfoUrl(id) == "https://picsum.photos/id/" \o id \o "/info"

NotFoundError(id) == ErrorOf("Image with ID \"" \o id \o "\" not found")

\* A try block that reports every non-2xx status alike.
SingleTryNo404(id, t) ==
    IF t.kind = "reject" THEN Threw(t.thrown)
    ELSE IF ~ResponseOk(t) THEN Threw(ApiError(t))
    ELSE IF ~t.parses THEN Threw(t.thrown)
    ELSE Returned(t.data)

\* The try block: the fetch, the status check with its 404 case, the body.
SingleTry(id, t) ==
    IF t.kind = "reject" THEN Threw(t.thrown)
    ELSE IF ~ResponseOk(t)
         THEN IF t.status = 404 THEN Threw(NotFoundError(id))
              ELSE Threw(ApiError(t))
    ELSE IF ~t.parses THEN Threw(t.thrown)
    ELSE Returned(t.data)

\* The catch block rethrows an Error as it is.
SingleCatch(e) ==
    IF e.isError THEN Threw(e)
    ELSE Threw(ErrorOf("Failed to fetch image details"))

fetchSingleImage(id, t) ==
    LET r == SingleTry(id, t) IN IF r.threw THEN SingleCatch(r.err) ELSE r

\* A page that goes on to render whatever fetchSingleImage did.
DetailsPageIgnoresFailure(r) == [kind |-> "details", image |-> r.value]

\* ImageDetailsPage after its await: notFound() in the catch block ends the
\* render with the not-found page; otherwise the viewer and the metadata
\* are rendered with the record.
DetailsPage(r) ==
    IF r.threw THEN [kind |-> "not-found", image |-> <<>>]
    ELSE [kind |-> "details", image |-> r.value]

NothingRendered == [kind |-> "pending", image |-> <<>>]

\* The ids the model asks for, and those among them the endpoint knows.
RequestedIds == {"0", "237", "1084", "does-not-exist", "99999"}
KnownIds == {"0", "237", "1084"}

\* The record the endpoint holds at a URL.
RecordAt(url) == [id |-> CHOOSE id \in KnownIds : InfoUrl(id) = url]

\* What the transport can do with a request for a URL: the endpoint answers
\* with the record at that URL, or 404 where it holds none; or the request
\* fails on the way, or the server does, or the body does not parse.
SingleFailures ==
    { Rejected(ErrorOf("Failed to fetch")),
      Rejected(ErrorOf("")),
      Rejected(NonError),
      Response(400, "Bad Request", <<>>),
      Response(403, "Forbidden", <<>>),
      Response(429, "Too Many Requests", <<>>),
      Response(500, "Internal Server Error", <<>>),
      Response(502, "Bad Gateway", <<>>),
      Response(503, "Service Unavailable", <<>>),
      BadBody(200, "OK", ErrorOf("Unexpected token < in JSON")) }

SingleOutcomes(url) ==
    SingleFailures \cup
    (IF \E id \in KnownIds : InfoUrl(id) = url
     THEN {Response(200, "OK", RecordAt(url))}
     ELSE {Response(404, "Not Found", <<>>)})

-----------------------------------------------------------------------------
(* image-effects: applyGrayscale *)

\* The channel values of the model's pixels: the three remainders of a sum
\* of three channels by 3 occur among them, at both ends of the range.
ChannelSamples == {0, 1, 255}
AlphaSamples == {128, 255}

\* A pixel is <<red, green, blue, alpha>>; a bitmap is its pixels in order.
Pixels == ChannelSamples \X ChannelSamples \X ChannelSamples \X AlphaSamples
Bitmaps == UNION {[1..n -> Pixels] : n \in 1..MaxPixels}

\* drawImage and getImageData: the pixels as one array, four entries each.
GetImageData(bitmap) ==
    [j \in 1..(4 * Len(bitmap)) |->
        bitmap[((j - 1) \div 4) + 1][((j - 1) % 4) + 1]]

\* A store that drops the fraction of the number num / den.
ToUint8Truncates(num, den) == num \div den

\* A store of the number num / den (num >= 0, den > 0) into a
\* Uint8ClampedArray: the nearest integer, the even one of two equally
\* near, at most 255.
ToUint8Clamped(num, den) ==
    LET q == num \div den
        r == num % den
        n == IF 2 * r < den THEN q
             ELSE IF 2 * r > den THEN q + 1
             ELSE IF q % 2 = 0 THEN q ELSE q + 1
    IN  IF n > 255 THEN 255 ELSE n

\* A loop body that reads each channel again after the stores before it.
GrayPixelInPlace(data, i) ==
    LET d1 == [data EXCEPT ![i + 1] =
                   ToUint8Clamped(data[i + 1] + data[i + 2] + data[i + 3], 3)]
        d2 == [d1 EXCEPT ![i + 2] =
                   ToUint8Clamped(d1[i + 1] + d1[i + 2] + d1[i + 3], 3)]
    IN  [d2 EXCEPT ![i + 3] =
                   ToUint8Clamped(d2[i + 1] + d2[i + 2] + d2[i + 3], 3)]

\* The loop body for the pixel at offset i (0-based, as in the code):
\* avg = (data[i] + data[i+1] + data[i+2]) / 3 stored in the three colour
\* channels; data[i+3], the alpha, is not written.
GrayPixel(data, i) ==
    LET sum == data[i + 1] + data[i + 2] + data[i + 3]
    IN  [data EXCEPT ![i + 1] = ToUint8Clamped(sum, 3),
                     ![i + 2] = ToUint8Clamped(sum, 3),
                     ![i + 3] = ToUint8Clamped(sum, 3)]

\* for (let i = 0; i < data.length; i += 4)
RECURSIVE GrayscaleLoop(_, _)
GrayscaleLoop(data, i) ==
    IF i < Len(data) THEN GrayscaleLoop(GrayPixel(data, i), i + 4) ELSE data

\* The pixel data applyGrayscale puts on its canvas for a bitmap.
applyGrayscale(bitmap) == GrayscaleLoop(GetImageData(bitmap), 0)

\* The bitmap that holds the pixel data d.
BitmapOf(d) ==
    [k \in 1..(Len(d) \div 4) |->
        <<d[4 * k - 3], d[4 * k - 2], d[4 * k - 1], d[4 * k]>>]

\* No bitmap is being processed.
NoPixels ==
    /\ source = <<>>
    /\ output = <<>>
    /\ applied = 0
    /\ once = <<>>

-----------------------------------------------------------------------------
(* image-effects: loadImage, the transforms as URLs, downloadImage *)

\* A URL: its scheme, the effects applied to the picture it holds (a data:
\* URL made by toDataURL), the number of the object URL (a blob: URL).
Url(scheme, effects, n) == [scheme |-> scheme, effects |-> effects, blob |-> n]
NoUrl == Url("", <<>>, 0)
DataUrl(effects) == Url("data", effects, 0)
BlobUrl(n) == Url("blob", <<>>, n)

\* A test that takes no URL for an encoded payload.
StartsWithDataNever(u) == FALSE

\* imageUrl.startsWith('data:')
StartsWithData(u) == u.scheme = "data"

\* What the browser does with the image loadImage asks for: it loads, or
\* it fails (no such resource, undecodable bytes, cross-origin denial of an
\* image requested with crossOrigin = 'anonymous').
LoadOutcomes == {"load", "decode-failure", "cross-origin-denial"}

\* What getContext('2d') returns.
ContextOutcomes == {"2d", "null"}

\* A loadImage whose promise resolves whatever the browser reports.
loadImageAlwaysResolves(url, o) == Returned(url)

\* loadImage: resolves with the image of the URL on load, rejects on error.
loadImage(url, o) ==
    IF o = "load" THEN Returned(url)
    ELSE Threw(ErrorOf("Failed to load image"))

\* applyGrayscale and applyBlur on a loaded image, as the URL they return.
ApplyEffect(effect, image, ctx) ==
    IF ctx = "null" THEN Threw(ErrorOf("Canvas context not available"))
    ELSE Returned(DataUrl(Append(image.effects, effect)))

\* link.href = href; link.download = filename; link.click()
Save(href, filename) == [href |-> href, download |-> filename]

\* A download that schedules no timeout.
ScheduleNothing(tm, n) == tm

\* setTimeout(() => URL.revokeObjectURL(blobUrl), BLOB_CLEANUP_DELAY_MS)
ScheduleRevoke(tm, n) == tm \cup {[blob |-> n, delay |-> BLOB_CLEANUP_DELAY_MS]}

\* What the retrieval of the bytes of a remote URL does: the response and
\* its blob arrive, or fetch rejects, or response.blob() rejects.
DownloadOutcomes == {"blob", "fetch-rejects", "blob-rejects"}

\* await fetch(imageUrl); await response.blob(): what they throw, if they do.
DownloadTry(o) ==
    IF o = "fetch-rejects" THEN Threw(ErrorOf("Failed to fetch"))
    ELSE IF o = "blob-rejects" THEN Threw(ErrorOf("The body could not be read"))
    ELSE Returned(<<>>)

\* A catch block that throws what it caught.
DownloadCatchRethrows(e) == Threw(e)

\* catch (error) { ...; throw new Error('Failed to download image') }
DownloadCatch(e) == Threw(ErrorOf("Failed to download image"))

-----------------------------------------------------------------------------
(* ImageViewer and ImageToolbar *)

\* The displayUrl ImageDetailsPage passes to the viewer, and the record's
\* id and author.
DetailProps ==
    [imageUrl |-> Url("https", <<>>, 0), imageId |-> "0",
     author |-> <<"Alejandro", "Escamilla">>]

ToLowerCase(w) ==
    CASE w = "Alejandro" -> "alejandro"
      [] w = "Escamilla" -> "escamilla"
      [] OTHER -> w

\* author.replace(/\s+/g, '-').toLowerCase(), the author given as its words.
RECURSIVE Slug(_)
Slug(words) ==
    IF Len(words) = 0 THEN ""
    ELSE IF Len(words) = 1 THEN ToLowerCase(words[1])
    ELSE ToLowerCase(words[1]) \o "-" \o Slug(Tail(words))

Filename(p) == "picsum-" \o p.imageId \o "-" \o Slug(p.author) \o ".jpg"

handleImageChange(v, newUrl) ==
    [v EXCEPT !.currentImageUrl = newUrl, !.isLoading = TRUE]

handleLoad(v) == [v EXCEPT !.isLoading = FALSE]

handleError(v) == [v EXCEPT !.isLoading = FALSE, !.hasError = TRUE]

\* A reset that leaves the current URL alone.
handleResetKeepsUrl(v, p) == [v EXCEPT !.hasError = FALSE, !.isLoading = TRUE]

handleReset(v, p) ==
    [currentImageUrl |-> p.imageUrl, isLoading |-> TRUE, hasError |-> FALSE]

\* {currentImageUrl !== imageUrl && <button>Reset to Original</button>}
RenderResetButton(v, p) == v.currentImageUrl # p.imageUrl

\* What a render reads and puts on the page.
Shown(v, tb, p) ==
    [currentImageUrl |-> v.currentImageUrl, isLoading |-> v.isLoading,
     hasError |-> v.hasError, isProcessing |-> tb.isProcessing,
     error |-> tb.error, resetButton |-> RenderResetButton(v, p)]

NoImg == [mounted |-> FALSE, src |-> NoUrl, pending |-> FALSE]

\* The <img> after a commit: absent while hasError; a new element, or a new
\* src on the element, starts a load; the same src on the same element
\* starts nothing.
Commit(el, r) ==
    IF r.hasError THEN NoImg
    ELSE IF ~el.mounted \/ el.src # r.currentImageUrl
    THEN [mounted |-> TRUE, src |-> r.currentImageUrl, pending |-> TRUE]
    ELSE el

\* The try block of handleGrayscale and handleBlur.
TransformTry(effect, url, load, ctx) ==
    IF loadImage(url, load).threw THEN loadImage(url, load)
    ELSE ApplyEffect(effect, loadImage(url, load).value, ctx)

\* err instanceof Error ? err.message : 'Failed to apply ...'
TransformCatch(effect, e) ==
    IF e.isError THEN e.message
    ELSE IF effect = "grayscale" THEN "Failed to apply grayscale"
    ELSE "Failed to apply blur"

\* kind: the step; url: the URL it was about; outcome: what the browser did
\* for a step that goes on after an await or reports an event; called:
\* whether the step called onImageChange.
VEvent(k, url, outcome, called) ==
    [kind |-> k, url |-> url, outcome |-> outcome, called |-> called]

\* No detail page shows a viewer.
NoViewer ==
    /\ props = DetailProps
    /\ viewer = [currentImageUrl |-> NoUrl, isLoading |-> FALSE,
                 hasError |-> FALSE]
    /\ toolbar = [isProcessing |-> FALSE, error |-> NoError]
    /\ shown = Shown(viewer, toolbar, [props EXCEPT !.imageUrl = NoUrl])
    /\ img = NoImg
    /\ jobs = <<>>
    /\ fetches = <<>>
    /\ objectUrls = <<>>
    /\ timers = {}
    /\ saves = <<>>
    /\ transforms = 0
    /\ downloads = 0
    /\ vev = VEvent("none", NoUrl, <<>>, FALSE)
    /\ promise = Returned(<<>>)
    /\ afterReset = FALSE

-----------------------------------------------------------------------------
(* ImageGrid *)

Snapshot(p, l, h, e) == [page |-> p, isLoading |-> l, hasMore |-> h, error |-> e]

\* The values a loadMore callback closes over (its useCallback dependencies).
Closure(r) == [page |-> r.page, isLoading |-> r.isLoading, hasMore |-> r.hasMore]

\* {error && ...}: null and the empty string render nothing.
Truthy(e) == e # NoError /\ e[1] # ""

NoObserver == [active |-> FALSE, cb |-> Closure(Snapshot(0, FALSE, FALSE, NoError)),
               prev |-> "none"]

\* loadMore's guard, read from the closure.
LoadMoreGuard(c) == ~(c.isLoading \/ ~c.hasMore)

\* loadMore up to its await: the guard, the two setters, the request.
LoadMore(c) ==
    IF LoadMoreGuard(c)
    THEN /\ isLoading' = TRUE
         /\ error' = NoError
         /\ inflight' = Append(inflight, c.page + 1)
         /\ calls' = Append(calls, c.page + 1)
         /\ UNCHANGED <<images, page, hasMore, failedTarget, appended>>
    ELSE UNCHANGED <<loaderState, failedTarget, appended>>

\* The new page replacing the held list.
AppendedReplaces(prev, newImages) == newImages

\* A page dropped when the trigger element has left the viewport.
AppendedUnlessHidden(prev, newImages) ==
    IF visible THEN prev \o newImages ELSE prev

\* The records appended for a non-empty page.
Appended(prev, newImages) == prev \o newImages

RemoveAt(s, i) == SubSeq(s, 1, i - 1) \o SubSeq(s, i + 1, Len(s))

\* err instanceof Error ? err.message : 'Failed to load more images'
ErrorMessage(e) == IF e.isError THEN e.message ELSE "Failed to load more images"

\* A loadMore that clears isLoading at the end of its try block only.
LoadMoreResumeNoFinally(i, t) ==
    LET nextPage == inflight[i]
        r == fetchPicsumImages(t)
    IN  /\ inflight' = RemoveAt(inflight, i)
        /\ UNCHANGED calls
        /\ IF r.threw
           THEN /\ error' = <<ErrorMessage(r.err)>>
                /\ failedTarget' = nextPage
                /\ UNCHANGED <<images, page, hasMore, appended, isLoading>>
           ELSE IF Len(r.value) = 0
           THEN /\ hasMore' = FALSE
                /\ isLoading' = FALSE
                /\ UNCHANGED <<images, page, error, failedTarget, appended>>
           ELSE /\ images' = Appended(images, r.value)
                /\ page' = nextPage
                /\ isLoading' = FALSE
                /\ appended' = Append(appended, [page |-> nextPage,
                                                 records |-> r.value])
                /\ UNCHANGED <<hasMore, error, failedTarget>>

\* loadMore after its await, for the i-th fetch in flight and what the
\* transport did: try, catch and finally.
LoadMoreResume(i, t) ==
    LET nextPage == inflight[i]
        r == fetchPicsumImages(t)
    IN  /\ inflight' = RemoveAt(inflight, i)
        /\ isLoading' = FALSE
        /\ UNCHANGED calls
        /\ IF r.threw
           THEN /\ error' = <<ErrorMessage(r.err)>>
                /\ failedTarget' = nextPage
                /\ UNCHANGED <<images, page, hasMore, appended>>
           ELSE IF Len(r.value) = 0
           THEN /\ hasMore' = FALSE
                /\ UNCHANGED <<images, page, error, failedTarget, appended>>
           ELSE /\ images' = Appended(images, r.value)
                /\ page' = nextPage
                /\ appended' = Append(appended, [page |-> nextPage,
                                                 records |-> r.value])
                /\ UNCHANGED <<hasMore, error, failedTarget>>

-----------------------------------------------------------------------------
(* InfiniteScrollTrigger *)

\* The effect's dependencies [onIntersect, isLoading, hasMore]; onIntersect
\* is loadMore, which is re-created when [page, isLoading, hasMore] change.
DepsChanged(old, new) == Closure(old) # Closure(new)

\* The effect: the cleanup of the previous run, then a new observer unless
\* the trigger element is absent, or nothing more to load, or loading.
Effect(old, new, obs) ==
    IF ~DepsChanged(old, new) THEN obs
    ELSE IF ~new.hasMore \/ new.isLoading THEN NoObserver
    ELSE [active |-> TRUE, cb |-> Closure(new), prev |-> "none"]

Seen(v) == IF v THEN "in" ELSE "out"

-----------------------------------------------------------------------------
(* Steps *)

NoTransport == Response(0, "", <<>>)

\* kind: the step; issued: whether it sent a request; target: the page of the
\* request sent or completed; t: what the transport did for a completed one.
Event(k, issued, target, t) ==
    [kind |-> k, issued |-> issued, target |-> target, t |-> t]

\* The observer reports the trigger element: once after observe(), then on
\* every change of its intersection.  The callback calls onIntersect when
\* the element intersects.
ObserverNotify ==
    /\ observer.active
    /\ observer.prev # Seen(visible)
    /\ observer' = [observer EXCEPT !.prev = Seen(visible)]
    /\ invoked' = (visible \/ invoked)
    /\ IF visible
       THEN /\ LoadMoreGuard(observer.cb) => Len(calls) < MaxCalls
            /\ LoadMore(observer.cb)
            /\ ev' = Event("intersect", LoadMoreGuard(observer.cb),
                           observer.cb.page + 1, NoTransport)
       ELSE /\ UNCHANGED <<loaderState, failedTarget, appended>>
            /\ ev' = Event("leave", FALSE, 0, NoTransport)
    /\ UNCHANGED <<rendered, visible, detailVars, pixelVars, viewerVars>>

\* The user scrolls, or the layout moves the trigger element.
Scroll ==
    /\ visible' = ~visible
    /\ invoked' = FALSE
    /\ ev' = Event("scroll", FALSE, 0, NoTransport)
    /\ UNCHANGED <<loaderState, failedTarget, appended, rendered, observer, detailVars, pixelVars, viewerVars>>

\* A render of ImageGrid and InfiniteScrollTrigger commits.
Render ==
    /\ rendered # Snapshot(page, isLoading, hasMore, error)
    /\ rendered' = Snapshot(page, isLoading, hasMore, error)
    /\ observer' = Effect(rendered, rendered', observer)
    /\ ev' = Event("render", FALSE, 0, NoTransport)
    /\ UNCHANGED <<loaderState, failedTarget, appended, visible, invoked, detailVars, pixelVars, viewerVars>>

\* The Try Again button, shown while the rendered error is set.
ClickTryAgain ==
    /\ Truthy(rendered.error)
    /\ LoadMoreGuard(Closure(rendered)) => Len(calls) < MaxCalls
    /\ LoadMore(Closure(rendered))
    /\ rendered' = Snapshot(page', isLoading', hasMore', error')
    /\ observer' = Effect(rendered, rendered', observer)
    /\ ev' = Event("retry", LoadMoreGuard(Closure(rendered)), rendered.page + 1,
                   NoTransport)
    /\ UNCHANGED <<visible, invoked, detailVars, pixelVars, viewerVars>>

\* The i-th fetch in flight completes with what the transport did.
Settle(i, t) ==
    /\ LoadMoreResume(i, t)
    /\ ev' = Event("settle", FALSE, inflight[i], t)
    /\ UNCHANGED <<rendered, observer, visible, invoked, detailVars, pixelVars, viewerVars>>

\* A fetch in flight completes, in any order, with any outcome.
FetchSettles ==
    \E i \in 1..Len(inflight) : \E t \in ListOutcomes : Settle(i, t)

\* No detail page is open.
NoDetail ==
    /\ imageId = ""
    /\ transport = NoTransport
    /\ fetched = [done |-> FALSE, r |-> Threw(NonError)]
    /\ detailPage = NothingRendered

\* Home fetched the first page on the server (an error there leaves no grid);
\* ImageGrid mounts with its records and the first effect of
\* InfiniteScrollTrigger observes the trigger element.
Home(t) ==
    /\ ~fetchPicsumImages(t).threw
    /\ images = fetchPicsumImages(t).value
    /\ page = INITIAL_PAGE
    /\ isLoading = FALSE
    /\ hasMore = TRUE
    /\ error = NoError
    /\ rendered = Snapshot(INITIAL_PAGE, FALSE, TRUE, NoError)
    /\ observer = [active |-> TRUE, cb |-> Closure(rendered), prev |-> "none"]
    /\ visible \in BOOLEAN
    /\ inflight = <<>>
    /\ calls = <<INITIAL_PAGE>>
    /\ failedTarget = 0
    /\ ev = Event("mount", FALSE, 0, NoTransport)
    /\ appended = <<[page |-> INITIAL_PAGE, records |-> images]>>
    /\ invoked = FALSE

Init == (\E t \in ListOutcomes : Home(t)) /\ NoDetail /\ NoPixels /\ NoViewer

Next == ObserverNotify \/ Scroll \/ Render \/ ClickTryAgain \/ FetchSettles

Spec == Init /\ [][Next]_vars

-----------------------------------------------------------------------------
(* A list endpoint whose every request is answered or fails in the end *)

\* One answer for each way a fetch can complete: with records, with none,
\* with a failure.
SettlingOutcomes ==
    { Response(200, "OK", <<2, 1>>),
      Response(200, "OK", <<>>),
      Response(500, "Internal Server Error", <<>>),
      Rejected(ErrorOf("Failed to fetch")) }

SettlingInit ==
    Home(Response(200, "OK", <<1>>)) /\ NoDetail /\ NoPixels /\ NoViewer

FetchCompletes ==
    \E i \in 1..Len(inflight) : \E t \in SettlingOutcomes : Settle(i, t)

SettlingNext ==
    ObserverNotify \/ Scroll \/ Render \/ ClickTryAgain \/ FetchCompletes

SpecSettling ==
    SettlingInit /\ [][SettlingNext]_vars /\ WF_vars(FetchCompletes)

-----------------------------------------------------------------------------
(* The scenario of a list endpoint with exactly one page of records *)

\* What the endpoint holds: IMAGES_PER_PAGE records on the first page, none
\* after it.
ScenarioPage(p) ==
    IF p = INITIAL_PAGE THEN [i \in 1..IMAGES_PER_PAGE |-> i] ELSE <<>>

ScenarioAnswer(p) == Response(200, "OK", ScenarioPage(p))

ScenarioInit == Home(ScenarioAnswer(INITIAL_PAGE)) /\ NoDetail /\ NoPixels /\ NoViewer

ScenarioSettles ==
    \E i \in 1..Len(inflight) : Settle(i, ScenarioAnswer(inflight[i]))

ScenarioNext == ObserverNotify \/ Scroll \/ Render \/ ScenarioSettles

SpecScenario == ScenarioInit /\ [][ScenarioNext]_vars

-----------------------------------------------------------------------------
(* A detail page asking for one record *)

\* No grid is mounted.
NoGrid ==
    /\ images = <<>>
    /\ page = INITIAL_PAGE
    /\ isLoading = FALSE
    /\ hasMore = TRUE
    /\ error = NoError
    /\ rendered = Snapshot(INITIAL_PAGE, FALSE, TRUE, NoError)
    /\ observer = NoObserver
    /\ visible = FALSE
    /\ inflight = <<>>
    /\ calls = <<>>
    /\ failedTarget = 0
    /\ ev = Event("none", FALSE, 0, NoTransport)
    /\ appended = <<>>
    /\ invoked = FALSE

DetailInit ==
    /\ NoGrid
    /\ imageId \in RequestedIds
    /\ transport \in SingleOutcomes(InfoUrl(imageId))
    /\ fetched = [done |-> FALSE, r |-> Threw(NonError)]
    /\ detailPage = NothingRendered
    /\ NoPixels /\ NoViewer

\* fetchSingleImage settles.
FetchSingleSettles ==
    /\ ~fetched.done
    /\ fetched' = [done |-> TRUE, r |-> fetchSingleImage(imageId, transport)]
    /\ UNCHANGED <<gridVars, imageId, transport, detailPage, pixelVars,
                   viewerVars>>

\* ImageDetailsPage goes on after its await.
DetailRenders ==
    /\ fetched.done
    /\ detailPage = NothingRendered
    /\ detailPage' = DetailsPage(fetched.r)
    /\ UNCHANGED <<gridVars, imageId, transport, fetched, pixelVars,
                   viewerVars>>

DetailNext == FetchSingleSettles \/ DetailRenders

SpecDetail == DetailInit /\ [][DetailNext]_vars

-----------------------------------------------------------------------------
(* A bitmap turned to grayscale, and the result turned to grayscale again *)

PixelInit ==
    /\ NoGrid /\ NoDetail /\ NoViewer
    /\ source \in Bitmaps
    /\ output = <<>>
    /\ applied = 0
    /\ once = <<>>

\* applyGrayscale runs: first on the bitmap, then on the pixels the run
\* before it produced.
ApplyGrayscale ==
    /\ applied < MaxApplied
    /\ source' = IF applied = 0 THEN source ELSE BitmapOf(output)
    /\ output' = applyGrayscale(source')
    /\ applied' = applied + 1
    /\ once' = IF applied = 0 THEN output' ELSE once
    /\ UNCHANGED <<gridVars, detailVars, viewerVars>>

PixelNext == ApplyGrayscale

SpecPixels == PixelInit /\ [][PixelNext]_vars

-----------------------------------------------------------------------------
(* A detail page with its viewer and toolbar *)

ViewerInit ==
    /\ NoGrid /\ NoDetail /\ NoPixels
    /\ props = DetailProps
    /\ viewer = [currentImageUrl |-> props.imageUrl, isLoading |-> TRUE,
                 hasError |-> FALSE]
    /\ toolbar = [isProcessing |-> FALSE, error |-> NoError]
    /\ shown = Shown(viewer, toolbar, props)
    /\ img = Commit(NoImg, shown)
    /\ jobs = <<>>
    /\ fetches = <<>>
    /\ objectUrls = <<>>
    /\ timers = {}
    /\ saves = <<>>
    /\ transforms = 0
    /\ downloads = 0
    /\ vev = VEvent("mount", props.imageUrl, <<>>, FALSE)
    /\ promise = Returned(<<>>)
    /\ afterReset = FALSE

\* A click renders before anything else runs.
RenderNow ==
    /\ shown' = Shown(viewer', toolbar', props)
    /\ img' = Commit(img, shown')

\* Grayscale and Blur buttons that are never disabled.
ClickTransformAlways(effect) ==
    /\ transforms < MaxTransforms
    /\ toolbar' = [isProcessing |-> TRUE, error |-> NoError]
    /\ jobs' = Append(jobs, [effect |-> effect, url |-> shown.currentImageUrl])
    /\ transforms' = transforms + 1
    /\ UNCHANGED viewer
    /\ RenderNow
    /\ afterReset' = FALSE
    /\ vev' = VEvent("transform", shown.currentImageUrl, <<>>, FALSE)
    /\ UNCHANGED <<gridVars, detailVars, pixelVars, props, promise,
                   fetches, objectUrls, timers, saves, downloads>>

\* The Grayscale or Blur button, enabled unless isProcessing was rendered:
\* the handler up to its await.
ClickTransform(effect) ==
    /\ ~shown.isProcessing
    /\ transforms < MaxTransforms
    /\ toolbar' = [isProcessing |-> TRUE, error |-> NoError]
    /\ jobs' = Append(jobs, [effect |-> effect, url |-> shown.currentImageUrl])
    /\ transforms' = transforms + 1
    /\ UNCHANGED viewer
    /\ RenderNow
    /\ afterReset' = FALSE
    /\ vev' = VEvent("transform", shown.currentImageUrl, <<>>, FALSE)
    /\ UNCHANGED <<gridVars, detailVars, pixelVars, props, promise,
                   fetches, objectUrls, timers, saves, downloads>>

\* The handler after its await: the rest of try, catch and finally.
TransformSettles(i, load, ctx) ==
    LET job == jobs[i]
        r == TransformTry(job.effect, job.url, load, ctx)
    IN  /\ jobs' = RemoveAt(jobs, i)
        /\ IF r.threw
           THEN /\ toolbar' = [isProcessing |-> FALSE,
                               error |-> <<TransformCatch(job.effect, r.err)>>]
                /\ UNCHANGED viewer
           ELSE /\ viewer' = handleImageChange(viewer, r.value)
                /\ toolbar' = [toolbar EXCEPT !.isProcessing = FALSE]
        /\ vev' = VEvent("transformed", job.url, <<load, ctx>>, ~r.threw)
        /\ UNCHANGED <<gridVars, detailVars, pixelVars, props, afterReset, promise,
                   shown, img, fetches, objectUrls, timers, saves,
                       transforms, downloads>>

\* The Download button, enabled unless isProcessing was rendered:
\* handleDownload and downloadImage up to its await.
ClickDownload ==
    /\ ~shown.isProcessing
    /\ downloads < MaxDownloads
    /\ downloads' = downloads + 1
    /\ IF StartsWithData(shown.currentImageUrl)
       THEN /\ saves' = Append(saves, Save(shown.currentImageUrl, Filename(props)))
            /\ promise' = Returned(<<>>)
            /\ UNCHANGED fetches
       ELSE /\ fetches' = Append(fetches, [url |-> shown.currentImageUrl,
                                           filename |-> Filename(props)])
            /\ UNCHANGED <<saves, promise>>
    /\ vev' = VEvent("download", shown.currentImageUrl, <<>>, FALSE)
    /\ UNCHANGED <<gridVars, detailVars, pixelVars, props, afterReset,
                   viewer, toolbar, shown, img, jobs, objectUrls,
                   timers, transforms>>

\* downloadImage after its awaits: the object URL, the save, the timeout;
\* or the catch block.
DownloadSettles(i, o) ==
    /\ fetches' = RemoveAt(fetches, i)
    /\ promise' = IF DownloadTry(o).threw THEN DownloadCatch(DownloadTry(o).err)
                  ELSE DownloadTry(o)
    /\ IF ~DownloadTry(o).threw
       THEN /\ objectUrls' = Append(objectUrls, [revoked |-> 0])
            /\ saves' = Append(saves, Save(BlobUrl(Len(objectUrls')),
                                           fetches[i].filename))
            /\ timers' = ScheduleRevoke(timers, Len(objectUrls'))
       ELSE UNCHANGED <<objectUrls, saves, timers>>
    /\ vev' = VEvent("downloaded", fetches[i].url, <<o>>, FALSE)
    /\ UNCHANGED <<gridVars, detailVars, pixelVars, props, afterReset,
                   viewer, toolbar, shown, img, jobs, transforms,
                   downloads>>

\* A timeout runs: URL.revokeObjectURL(blobUrl).
RevokeTimerFires ==
    \E tm \in timers :
        /\ timers' = timers \ {tm}
        /\ objectUrls' = [objectUrls EXCEPT ![tm.blob].revoked = @ + 1]
        /\ vev' = VEvent("revoke", BlobUrl(tm.blob), <<>>, FALSE)
        /\ UNCHANGED <<gridVars, detailVars, pixelVars, props, afterReset, promise,
                   viewer, toolbar, shown, img, jobs, fetches,
                       saves, transforms, downloads>>

\* The <img> reports the end of its load: onLoad or onError.
ImgEvent(o) ==
    /\ img.mounted /\ img.pending
    /\ img' = [img EXCEPT !.pending = FALSE]
    /\ viewer' = IF o = "load" THEN handleLoad(viewer) ELSE handleError(viewer)
    /\ vev' = VEvent("img", img.src, <<o>>, FALSE)
    /\ UNCHANGED <<gridVars, detailVars, pixelVars, props, afterReset, promise,
                   toolbar, shown, jobs, fetches, objectUrls, timers,
                   saves, transforms, downloads>>

\* The Reset to Original button, or the Retry button of the error box.
ClickReset ==
    /\ shown.resetButton \/ shown.hasError
    /\ viewer' = handleReset(viewer, props)
    /\ UNCHANGED toolbar
    /\ RenderNow
    /\ afterReset' = (shown.resetButton \/ afterReset)
    /\ vev' = VEvent("reset", viewer.currentImageUrl, <<>>, FALSE)
    /\ UNCHANGED <<gridVars, detailVars, pixelVars, props, promise,
                   jobs, fetches, objectUrls, timers, saves, transforms,
                   downloads>>

\* A render of the viewer and its toolbar commits.
ViewerRender ==
    /\ shown # Shown(viewer, toolbar, props)
    /\ UNCHANGED <<viewer, toolbar>>
    /\ RenderNow
    /\ vev' = VEvent("render", viewer.currentImageUrl, <<>>, FALSE)
    /\ UNCHANGED <<gridVars, detailVars, pixelVars, props, afterReset, promise,
                   jobs, fetches, objectUrls, timers, saves, transforms,
                   downloads>>

TransformClicked == \E effect \in {"grayscale", "blur"} : ClickTransform(effect)

\* A transform goes on after loadImage, whatever the browser did.
TransformContinues ==
    \E i \in 1..Len(jobs) : \E load \in LoadOutcomes :
        \E ctx \in ContextOutcomes : TransformSettles(i, load, ctx)

\* A download goes on after its bytes arrived or failed to.
DownloadContinues ==
    \E i \in 1..Len(fetches) : \E o \in DownloadOutcomes : DownloadSettles(i, o)

ImgReports == \E o \in {"load", "error"} : ImgEvent(o)

ViewerNext ==
    \/ TransformClicked
    \/ TransformContinues
    \/ ClickDownload
    \/ DownloadContinues
    \/ RevokeTimerFires
    \/ ImgReports
    \/ ClickReset
    \/ ViewerRender

\* A timeout that was scheduled runs.
SpecViewer == ViewerInit /\ [][ViewerNext]_vars /\ WF_vars(RevokeTimerFires)

\* Besides, a render that is due commits, an <img> that is loading reports
\* its load or its error, and a transform that waits for loadImage goes on.
SpecViewerFair ==
    /\ ViewerInit /\ [][ViewerNext]_vars
    /\ WF_vars(RevokeTimerFires)
    /\ WF_vars(ViewerRender)
    /\ WF_vars(ImgReports)
    /\ WF_vars(TransformContinues)

-----------------------------------------------------------------------------
(* Properties of the pagination loader *)

IsPrefix(s, t) == Len(s) <= Len(t) /\ SubSeq(t, 1, Len(s)) = s

\* A completion step, by what the transport did.
Settled(e) == e.kind = "settle"
SettledWithPage(e) ==
    Settled(e) /\ e.t.kind = "response" /\ ResponseOk(e.t) /\ e.t.parses
SettledLoaded(e) == SettledWithPage(e) /\ Len(e.t.data) > 0
SettledEmpty(e) == SettledWithPage(e) /\ Len(e.t.data) = 0
SettledFailed(e) == Settled(e) /\ e.t \in TransportFailures

\* C1: at most one page fetch is in flight at any time; a second invocation
\* of loadMore that arrives before the first fetch completed sends nothing.
C1_OneFetchInFlight == Len(inflight) <= 1

\* C2: in ErrorState no fetch is issued by anything but the user's retry.
C2_NoAutomaticRetry ==
    [][(error # NoError /\ ~isLoading /\ calls' # calls) => ev'.kind = "retry"]_vars

\* C3: a fetch that completes with N > 0 records appends exactly those
\* records, in order, to the held list and raises the cursor by exactly 1.
C3_LoadedAppendsAndAdvances ==
    [][SettledLoaded(ev') =>
        /\ images' = images \o ev'.t.data
        /\ page' = page + 1]_vars

\* C4: once hasMore is false it stays false and no fetch is issued any more.
C4_ExhaustionIsFinal ==
    [][~hasMore => (~hasMore' /\ calls' = calls)]_vars

\* C5: a failed fetch leaves the cursor unchanged, and a retry from
\* ErrorState starts loading, clears the error and requests the page that
\* failed.
C5_RetrySamePage ==
    /\ [][SettledFailed(ev') => page' = page]_vars
    /\ [][ev'.kind = "retry" =>
            /\ isLoading' /\ error' = NoError
            /\ calls' = Append(calls, failedTarget)]_vars

\* C6: the held list is append-only: every step leaves the list it had as a
\* prefix of the list it has.
C6_AppendOnly == [][IsPrefix(images, images')]_vars

\* Two pages were appended to the held list, the last one just now.
C6_Witness ==
    SettledLoaded(ev) /\ Len(calls) >= 3 /\ Len(images) >= 3

\* C7: a fetch that fails (transport failure, non-2xx status, unparsable
\* body) ends with a non-empty error message and isLoading false, and the
\* attempt, from the call of loadMore to the failure, leaves the held list,
\* the cursor and hasMore as they were.
C7_FailureEndsInErrorState ==
    /\ [][SettledFailed(ev') =>
            /\ error' # NoError /\ error'[1] # ""
            /\ ~isLoading'
            /\ images' = images /\ page' = page /\ hasMore' = hasMore]_vars
    /\ [][ev'.issued =>
            images' = images /\ page' = page /\ hasMore' = hasMore]_vars

\* A fetch has just failed with an Error whose message is empty.
C7_Witness ==
    SettledFailed(ev) /\ ev.t = Rejected(ErrorOf("")) /\ error # NoError

\* C8: the cursor is an integer >= 1, a step leaves it or raises it by
\* exactly 1, and a fetch that completes with records raises it by 1.
C8_CursorMonotone ==
    /\ [](page \in Int /\ page >= 1)
    /\ [][page' = page \/ page' = page + 1]_vars
    /\ [][SettledLoaded(ev') => page' = page + 1]_vars

\* C9: with 30 records on page 1 and none on page 2, the list endpoint is
\* called twice in all (once by Home, once by loadMore), never a third
\* time, and the exhausted state is idle, without error, holding exactly
\* the 30 records of page 1.
C9_ExhaustedAfterTwoCalls ==
    /\ Len(calls) <= 2
    /\ ~hasMore => /\ calls = <<1, 2>>
                   /\ ~isLoading /\ error = NoError
                   /\ images = ScenarioPage(1)

\* C11: fetchPicsumImages throws an Error with a message whenever the
\* transport does not succeed, and the loader then records the message and
\* leaves hasMore alone; it returns an empty page normally, and the loader
\* then clears hasMore and records no error.
C11_FailureIsNotExhaustion ==
    [][Settled(ev') =>
        /\ SettledFailed(ev') =>
              /\ fetchPicsumImages(ev'.t).threw
              /\ fetchPicsumImages(ev'.t).err.isError
              /\ fetchPicsumImages(ev'.t).err.message # ""
              /\ error' = <<fetchPicsumImages(ev'.t).err.message>>
              /\ hasMore' = hasMore
        /\ SettledEmpty(ev') =>
              /\ ~fetchPicsumImages(ev'.t).threw
              /\ ~hasMore'
              /\ error' = error]_vars

\* A fetch has just been answered with status 500; more pages are expected.
C11_Witness ==
    SettledFailed(ev) /\ ev.t.status = 500 /\ hasMore /\ error # NoError

\* C18: a fetch in flight is never cancelled: only its own completion takes
\* it out of flight, its completion stays possible whatever the trigger
\* element and the observer do, and a page of N > 0 records is appended to
\* the held list on completion, trigger visible or not, observed or not.
C18_NoCancellation ==
    /\ [][inflight' # inflight =>
            \/ ev'.issued /\ inflight' = Append(inflight, ev'.target)
            \/ Settled(ev') /\ Len(inflight') = Len(inflight) - 1]_vars
    /\ [](inflight # <<>> => ENABLED FetchSettles)
    /\ [][SettledLoaded(ev') => images' = images \o ev'.t.data]_vars

\* A page of records has just arrived while the trigger element is out of
\* the viewport and no observer is watching it.
C18_Witness ==
    SettledLoaded(ev) /\ ~visible /\ ~observer.active /\ Len(images) >= 2

\* C19: the trigger calls loadMore at most once for each entry of the
\* trigger element into the viewport: while the element stays visible, a
\* new IntersectionObserver does not call it again.
C19_OncePerVisibilityTransition ==
    [][ev'.kind = "intersect" => ~invoked]_vars

\* The records of a sequence of pages, in order.
RECURSIVE RecordsOf(_)
RecordsOf(ps) ==
    IF ps = <<>> THEN <<>> ELSE ps[1].records \o RecordsOf(Tail(ps))

\* C21: the held list is the records of the pages INITIAL_PAGE .. cursor in
\* page order, the page of Home first, each page once: no page is skipped
\* and none is appended twice.
C21_ListIsPagesInOrder ==
    /\ images = RecordsOf(appended)
    /\ Len(appended) = page - INITIAL_PAGE + 1
    /\ \A i \in 1..Len(appended) : appended[i].page = INITIAL_PAGE + i - 1

\* C22: isLoading is true exactly while a fetch of loadMore is in flight,
\* and the step that issues a fetch is the step that sets it.
C22_LoadingIffInFlight ==
    /\ [](isLoading <=> inflight # <<>>)
    /\ [][ev'.issued => isLoading']_vars

\* C23: when every fetch resolves or rejects in the end, a loader that is
\* loading stops loading in the end; each completion, with records, with
\* none or with a failure, clears isLoading.
C23_LoadingTerminates ==
    /\ isLoading ~> ~isLoading
    /\ [][Settled(ev') => ~isLoading']_vars

\* A fetch has just failed and the loader is not loading.
C23_Witness == SettledFailed(ev) /\ ~isLoading /\ inflight = <<>>

\* C24: while isLoading is true or hasMore is false the trigger has no
\* active IntersectionObserver, so that no step taken in such a state is a
\* call of onIntersect by the observer.
C24_NoIntersectWhileLoadingOrExhausted ==
    [][(isLoading \/ ~hasMore) => ev'.kind # "intersect"]_vars

-----------------------------------------------------------------------------
(* Properties of the pixel transforms *)

\* v is the mean of r, g and b as an 8-bit channel holds it: the integer
\* nearest to (r + g + b) / 3.
IsMean8(v, r, g, b) ==
    /\ v \in 0..255
    /\ 3 * v - (r + g + b) \in -1..1

\* C13: after applyGrayscale, the red, green and blue entries of every
\* pixel of the output data equal the mean of that pixel's three colour
\* channels in the bitmap, as an 8-bit channel holds it, and the alpha
\* entry equals the alpha of the bitmap's pixel.
C13_GrayIsMeanAlphaKept ==
    applied > 0 =>
        /\ Len(output) = 4 * Len(source)
        /\ \A k \in 1..Len(source) :
              /\ \A c \in 1..3 :
                    IsMean8(output[4 * (k - 1) + c],
                            source[k][1], source[k][2], source[k][3])
              /\ output[4 * k] = source[k][4]

\* A bitmap with a pixel whose channel sum leaves remainder 2 by 3, and a
\* translucent pixel, has been turned to grayscale.
C13_Witness ==
    /\ applied = 1
    /\ \E k \in 1..Len(source) :
          (source[k][1] + source[k][2] + source[k][3]) % 3 = 2
    /\ \E k \in 1..Len(source) : source[k][4] = 128 /\ output[4 * k] = 128

-----------------------------------------------------------------------------
(* Properties of the detail page *)

\* C28: ImageDetailsPage renders the not-found page when fetchSingleImage
\* failed, on a 404, on another non-2xx status and on a transport failure;
\* it renders the viewer and the metadata only when fetchSingleImage
\* returned, and then with the record it returned, the one asked for.
C28_NotFoundOnEveryFailure ==
    detailPage # NothingRendered =>
        /\ (transport.kind = "reject" \/ ~ResponseOk(transport)
                \/ ~transport.parses) => detailPage.kind = "not-found"
        /\ detailPage.kind = "not-found" <=> fetched.r.threw
        /\ detailPage.kind = "details" =>
              /\ ~fetched.r.threw
              /\ detailPage.image = fetched.r.value
              /\ detailPage.image # <<>>
              /\ detailPage.image.id = imageId

\* The server answered 503 and the not-found page was rendered.
C28_Witness ==
    /\ detailPage.kind = "not-found"
    /\ transport.kind = "response" /\ transport.status = 503
    /\ fetched.r.threw

-----------------------------------------------------------------------------
(* Properties of the viewer, its toolbar and the download *)

\* The step was the end of a transform whose image did not load or whose
\* canvas gave no context.
TransformFailed(e) ==
    /\ e.kind = "transformed"
    /\ e.outcome[1] # "load" \/ e.outcome[2] = "null"

\* The step was the end of a download whose bytes arrived.
DownloadSucceeded(e) == e.kind = "downloaded" /\ e.outcome = <<"blob">>

\* C12: a transform that fails (the image does not load or decode, the
\* cross-origin request is denied, the canvas has no context) sets the
\* toolbar's error to the message of the failure, does not call
\* onImageChange, and leaves the viewer's state, the rendered URL and the
\* <img> as they were; the start of a transform leaves the viewer's state
\* and the rendered URL as they were.
C12_FailedTransformKeepsImage ==
    /\ [][TransformFailed(vev') =>
            /\ toolbar'.error \in {<<"Failed to load image">>,
                                   <<"Canvas context not available">>}
            /\ ~vev'.called
            /\ viewer' = viewer
            /\ shown'.currentImageUrl = shown.currentImageUrl
            /\ img' = img]_vars
    /\ [][vev'.kind = "transform" =>
            /\ viewer' = viewer
            /\ shown'.currentImageUrl = shown.currentImageUrl]_vars

\* A transform of an image that was transformed before has just failed for
\* a cross-origin denial; the viewer still holds the earlier result.
C12_Witness ==
    /\ TransformFailed(vev) /\ vev.outcome[1] = "cross-origin-denial"
    /\ toolbar.error = <<"Failed to load image">>
    /\ viewer.currentImageUrl = vev.url
    /\ StartsWithData(vev.url)

\* C16: a download of a remote URL whose bytes arrive creates one object
\* URL, triggers one save with it while it is not revoked, and schedules
\* its revocation after BLOB_CLEANUP_DELAY_MS; nothing else creates an
\* object URL; no object URL is revoked twice; every object URL created is
\* revoked in the end.
C16_ObjectUrlReleasedOnce ==
    /\ [][DownloadSucceeded(vev') =>
            /\ ~StartsWithData(vev'.url)
            /\ Len(objectUrls') = Len(objectUrls) + 1
            /\ objectUrls'[Len(objectUrls')].revoked = 0
            /\ saves' = Append(saves, Save(BlobUrl(Len(objectUrls')),
                                           Filename(props)))
            /\ timers' = timers \cup
                   {[blob |-> Len(objectUrls'),
                     delay |-> BLOB_CLEANUP_DELAY_MS]}]_vars
    /\ [][Len(objectUrls') # Len(objectUrls) => DownloadSucceeded(vev')]_vars
    /\ [](\A n \in 1..Len(objectUrls) : objectUrls[n].revoked <= 1)
    /\ \A n \in 1..MaxDownloads :
          (Len(objectUrls) >= n) ~>
              (Len(objectUrls) >= n /\ objectUrls[n].revoked = 1)

\* Two downloads created an object URL each, and both are revoked.
C16_Witness ==
    /\ Len(objectUrls) = 2
    /\ \A n \in 1..2 : objectUrls[n].revoked = 1
    /\ Len(saves) = 2 /\ saves[2].href = BlobUrl(2)
    /\ timers = {}

\* C17: the original URL (the imageUrl prop) never changes; a reset makes
\* the current URL, in the state and on the page, the original URL; and
\* the page has the Reset to Original button exactly when the current URL
\* it shows is not the original URL.
C17_ResetRestoresOriginal ==
    /\ [][props' = props]_vars
    /\ [][vev'.kind = "reset" =>
            /\ viewer'.currentImageUrl = props.imageUrl
            /\ shown'.currentImageUrl = props.imageUrl]_vars
    /\ [](shown.resetButton <=> shown.currentImageUrl # props.imageUrl)

\* A reset has just replaced a transformed image, after one transform
\* that succeeded and one that failed.
C17_Witness ==
    /\ vev.kind = "reset" /\ StartsWithData(vev.url)
    /\ transforms = 2 /\ toolbar.error # NoError
    /\ viewer.currentImageUrl = props.imageUrl
    /\ ~shown.resetButton

\* C20: a download of a data: URL triggers one save with that URL and the
\* file name, in the same step, and sends no request, creates no object
\* URL and schedules no timeout; no request is ever made for a data: URL.
C20_DataUrlSavedDirectly ==
    /\ [][vev'.kind = "download" /\ vev'.url.scheme = "data" =>
            /\ saves' = Append(saves, Save(vev'.url, Filename(props)))
            /\ fetches' = fetches
            /\ objectUrls' = objectUrls
            /\ timers' = timers]_vars
    /\ [](\A i \in 1..Len(fetches) : fetches[i].url.scheme # "data")

\* The grayscale of the original has just been saved under the file name
\* made of the id and the author.
C20_Witness ==
    /\ vev.kind = "download" /\ vev.url = DataUrl(<<"grayscale">>)
    /\ saves # <<>>
    /\ saves[Len(saves)] =
           Save(DataUrl(<<"grayscale">>), "picsum-0-alejandro-escamilla.jpg")
    /\ objectUrls = <<>> /\ fetches = <<>>

\* C25: whenever the viewer's isLoading is true it is false again in the
\* end: a load or error event of the displayed image clears it.
C25_ViewerLoadingClears == viewer.isLoading ~> ~viewer.isLoading

\* C26: at most one transform is in progress; isProcessing is true exactly
\* from the start of a transform to its completion or failure; while it is
\* true no step starts a transform or a download; the step that completes
\* a transform, with a result or with an error, leaves it false.
C26_OneTransformAtATime ==
    /\ [](Len(jobs) <= 1)
    /\ [](toolbar.isProcessing <=> jobs # <<>>)
    /\ [][toolbar.isProcessing =>
            vev'.kind \notin {"transform", "download"}]_vars
    /\ [][vev'.kind = "transform" => toolbar'.isProcessing]_vars
    /\ [][vev'.kind = "transformed" => ~toolbar'.isProcessing]_vars

\* A second transform has just failed, after the first one had completed.
C26_Witness ==
    /\ TransformFailed(vev) /\ transforms = 2
    /\ StartsWithData(viewer.currentImageUrl)
    /\ ~toolbar.isProcessing /\ jobs = <<>>

\* C27: from a press of Reset to Original until the next start of a
\* transform the viewer's current URL is the original URL.
C27_ResetHoldsUntilNextTransform ==
    afterReset => viewer.currentImageUrl = props.imageUrl

\* C29: when fetch or response.blob() throws, the download triggers no
\* save, creates no object URL, schedules nothing, and downloadImage fails
\* with the Error 'Failed to download image'.
C29_FailedDownloadSavesNothing ==
    [][(vev'.kind = "downloaded" /\ vev'.outcome # <<"blob">>) =>
        /\ saves' = saves
        /\ objectUrls' = objectUrls
        /\ timers' = timers
        /\ promise' = Threw(ErrorOf("Failed to download image"))]_vars

\* The body of the response to the only download could not be read.
C29_Witness ==
    /\ vev.kind = "downloaded" /\ vev.outcome = <<"blob-rejects">>
    /\ promise.threw /\ promise.err.message = "Failed to download image"
    /\ saves = <<>> /\ objectUrls = <<>> /\ downloads = 1

-----------------------------------------------------------------------------
(* Properties of the image source client *)

Is404(t) == t.kind = "response" /\ t.status = 404
IsOtherFailure(t) ==
    \/ t.kind = "reject"
    \/ t.kind = "response" /\ ~ResponseOk(t) /\ t.status # 404
    \/ t.kind = "response" /\ ResponseOk(t) /\ ~t.parses
IsRecord(t) == t.kind = "response" /\ ResponseOk(t) /\ t.parses

\* C10: fetchSingleImage fails with the not-found error of the requested id
\* on a 404, with another error on any other non-2xx status and on a
\* transport failure (a body that cannot be read included), and returns the
\* record with the requested id on a 2xx response.
C10_NotFoundIsDistinct ==
    fetched.done =>
        /\ Is404(transport) =>
              fetched.r.threw /\ fetched.r.err = NotFoundError(imageId)
        /\ IsOtherFailure(transport) =>
              /\ fetched.r.threw /\ fetched.r.err.isError
              /\ \A id \in RequestedIds : fetched.r.err # NotFoundError(id)
        /\ IsRecord(transport) =>
              ~fetched.r.threw /\ fetched.r.value.id = imageId

\* An id the endpoint does not hold was asked for and answered with 404.
C10_Witness ==
    fetched.done /\ imageId = "does-not-exist" /\ Is404(transport)
    /\ fetched.r.threw

====
